---------------------------- MODULE Spec2Model ----------------------------
(***************************************************************************)
(* The sudoku engine of react-sudoku-solver-visualizer (src/util/sudoku.ts)*)
(* as a state machine: the board, the call stack of the recursive          *)
(* backtracking solver solveSudoku, the trace of snapshots it records,     *)
(* solveSudokuSteps and generateSolvableSudokuBoard; the geometry helper    *)
(* isCellInBox; the SudokuSolver component (src/components/SudokuSolver.tsx)*)
(* with its playback effect; and the older SudokuBoard component, which     *)
(* validates cell edits.                                                    *)
(***************************************************************************)
EXTENDS Integers, Sequences, FiniteSets, TLC

VARIABLES
    sudoku,                 \* the Board the running solver mutates in place
    steps,                  \* the trace sink (Board[]) of solveSudoku
    hasSteps,               \* whether the `steps` argument was supplied
    fillCellsSequentially,  \* the argument of the same name
    stack,                  \* the activation records of solveSudoku
    ctl,                    \* where the solver is: call, loop, ret_true, ret_false
    rng,                    \* the state of the random source behind shuffle
    phase,                  \* where the calling program is
    caller,                 \* which entry point started the run
    result,                 \* what the entry point returned
    board0,                 \* history: the board when the top-level call started
    lastReturn,             \* history: the invocation that returned last: its ordinal and
                            \* the board it was entered with
    invocations,            \* history: the number of solveSudoku invocations so far
    placements,             \* history: the number of values written by line 218
    prev,                   \* history: the outcome and board of the previous solver run
    run,                    \* history: the ordinal of the current run
    sudokuBoard,            \* component state: the board on display
    solvingSteps,           \* component state: the trace being played back
    isUnsolvable,           \* component state: the unsolvable notice
    solvingSpeed,           \* component state: the text of the speed input
    isSolvingSudoku,        \* component state: a solve session is open
    currentStepIdx,         \* the ref currentStepIdx.current
    effects,                \* the showSteps calls waiting in a sleep, oldest first
    effectPending,          \* a render changed the effect's dependencies and the
                            \* effect has not run yet
    sameObject,             \* the board the solver mutates is the very object held
                            \* in the sudokuBoard state
    event,                  \* history: the handler or callback that ran last
    args,                   \* the arguments of the call or handler under examination
    ret                     \* what that call returned

vars == <<sudoku, steps, hasSteps, fillCellsSequentially, stack, ctl, rng,
          phase, caller, result, board0, lastReturn, invocations, placements,
          prev, run, sudokuBoard, solvingSteps, isUnsolvable, solvingSpeed,
          isSolvingSudoku, currentStepIdx, effects, effectPending, sameObject,
          event, args, ret>>

solverVars == <<sudoku, steps, stack, ctl, rng, lastReturn, invocations, placements>>

callerVars == <<hasSteps, fillCellsSequentially, phase, caller, result, board0, prev, run>>

componentVars == <<sudokuBoard, solvingSteps, isUnsolvable, solvingSpeed, isSolvingSudoku,
                   currentStepIdx, effects, effectPending, sameObject, event>>

callVars == <<args, ret>>

-----------------------------------------------------------------------------
(* Bounds of the model *)

\* a starting board of Spec has at most MaxEdits cells of the window set
MaxEdits == 2
\* the random source starts in one of the states 0 .. MaxSeed-1
MaxSeed == 2
\* the values typed into a cell of the older board component are 1 .. MaxInput
MaxInput == 3
\* at most MaxSleeping calls of showSteps wait in a sleep at a time
MaxSleeping == 2
\* Solve is clicked on boards with at most MaxSolveEmpty empty cells
MaxSolveEmpty == 4

-----------------------------------------------------------------------------
(* The board model *)

Size == 9
BoxSize == 3
MinRemoved == 48
MaxRemoved == 62

Rows == 0 .. (Size - 1)
Cols == 0 .. (Size - 1)
Values == 1 .. Size
Positions == Rows \X Cols

Null == <<>>

\* generateEmptySudokuBoard: 9 rows of 9 cells {value: 0, isGiven: false}
generateEmptySudokuBoard ==
    [r \in Rows |-> [c \in Cols |-> [value |-> 0, isGiven |-> FALSE]]]

\* deepCopy of a Board: a new grid of new cells holding the same fields
deepCopy(board) ==
    [r \in Rows |-> [c \in Cols |->
        [value |-> board[r][c].value, isGiven |-> board[r][c].isGiven]]]


-----------------------------------------------------------------------------
(* The black-box utilities of ./util: shuffle and random *)

\* the k-th entry (from 0) of a shuffle of n entries drawn in source state s: a
\* bijection of 0 .. n-1 for n a power of 3, a different one in each state
ShuffleIndex(s, n, k) ==
    (k * (IF s % 2 = 0 THEN 7 ELSE 1) + s) % n

\* shuffle(arr): a permutation of arr, decided by the state s of the random source
shuffle(arr, s) ==
    [k \in 1 .. Len(arr) |-> arr[ShuffleIndex(s, Len(arr), k - 1) + 1]]

\* random(min, max): any integer of the inclusive range
random(min, max) == min .. max

-----------------------------------------------------------------------------
(* The constraint checker *)

\* isValidRowValue with the two indices of the board exchanged
isValidRowValueSwapped(testValue, row, board) ==
    \A x \in Cols : testValue # board[x][row].value

\* isValidRowValue: no cell of the row holds testValue
isValidRowValue(testValue, row, board) ==
    \A x \in Cols : testValue # board[row][x].value

\* isValidColValue: no cell of the column holds testValue
isValidColValue(testValue, col, board) ==
    \A y \in Rows : testValue # board[y][col].value

\* isValidBoxValue looking at the top-left box whatever the cell
isValidBoxValueTopLeft(testValue, row, col, board) ==
    \A y \in 0 .. (BoxSize - 1) : \A x \in 0 .. (BoxSize - 1) :
        testValue # board[y][x].value

\* isValidBoxValue: no cell of the 3x3 box of (row, col) holds testValue
isValidBoxValue(testValue, row, col, board) ==
    LET rowStart == row - (row % BoxSize)
        rowEnd   == rowStart + BoxSize
        colStart == col - (col % BoxSize)
        colEnd   == colStart + BoxSize
    IN  \A y \in rowStart .. (rowEnd - 1) : \A x \in colStart .. (colEnd - 1) :
            testValue # board[y][x].value

\* isValidValue without the box check
isValidValueNoBox(testValue, row, col, board) ==
    /\ isValidRowValue(testValue, row, board)
    /\ isValidColValue(testValue, col, board)

\* isValidValue: the conjunction of the three checks
isValidValue(testValue, row, col, board) ==
    /\ isValidRowValue(testValue, row, board)
    /\ isValidColValue(testValue, col, board)
    /\ isValidBoxValue(testValue, row, col, board)

\* findNextEmptyCell giving up after the first row
findNextEmptyCellFirstRow(board) ==
    LET emptyCols == {j \in Cols : board[0][j].value = 0}
    IN  IF emptyCols = {} THEN Null
        ELSE <<0, CHOOSE j \in emptyCols : \A k \in emptyCols : j <= k>>

\* findNextEmptyCell scanning column by column
findNextEmptyCellColumnMajor(board) ==
    LET withEmpty == {j \in Cols : \E i \in Rows : board[i][j].value = 0}
    IN  IF withEmpty = {} THEN Null
        ELSE LET j == CHOOSE j \in withEmpty : \A k \in withEmpty : j <= k
                 emptyRows == {i \in Rows : board[i][j].value = 0}
                 i == CHOOSE i \in emptyRows : \A k \in emptyRows : i <= k
             IN  <<i, j>>

\* findNextEmptyCell: the first cell in row-major order whose value is falsy, or null
findNextEmptyCell(board) ==
    LET withEmpty == {i \in Rows : \E j \in Cols : board[i][j].value = 0}
    IN  IF withEmpty = {} THEN Null
        ELSE LET i == CHOOSE i \in withEmpty : \A k \in withEmpty : i <= k
                 emptyCols == {j \in Cols : board[i][j].value = 0}
                 j == CHOOSE j \in emptyCols : \A k \in emptyCols : j <= k
             IN  <<i, j>>

-----------------------------------------------------------------------------
(* solveSudoku: one action per step of an invocation *)

\* the candidates in descending order
DescendingNums == [k \in 1 .. Size |-> Size + 1 - k]

\* the candidates in ascending order (line 211)
AscendingNums == [k \in 1 .. Size |-> k]

\* Candidates shuffling whatever the flag says
CandidatesShuffled(sequential, s) == shuffle(AscendingNums, s)

\* lines 211-214: the candidates in the order the loop tries them
Candidates(sequential, s) ==
    IF sequential THEN AscendingNums ELSE shuffle(AscendingNums, s)

\* Recorded appending the snapshot twice
RecordedTwice(trace, board, sink) ==
    IF sink THEN Append(Append(trace, deepCopy(board)), deepCopy(board)) ELSE trace

\* Recorded with the snapshot taken only once an empty cell was found
RecordedIfEmpty(trace, board, sink) ==
    IF sink /\ findNextEmptyCell(board) # Null THEN Append(trace, deepCopy(board)) ELSE trace

\* line 203: a deep snapshot of the board is appended when a sink was supplied
Recorded(trace, board, sink) ==
    IF sink THEN Append(trace, deepCopy(board)) ELSE trace

\* Placed writing a whole new cell, marked as given
PlacedAsGiven(board, row, col, possibleNum) ==
    [board EXCEPT ![row][col] = [value |-> possibleNum, isGiven |-> TRUE]]

\* line 218: the candidate is written to the cell
Placed(board, row, col, possibleNum) ==
    [board EXCEPT ![row][col].value = possibleNum]

\* Reverted leaving the value in the cell
RevertedKept(board, row, col) == board

\* line 224: the cell is emptied again
Reverted(board, row, col) ==
    [board EXCEPT ![row][col].value = 0]

Top == stack[Len(stack)]

\* NextIteration trying the same candidate again
NextIterationStays(stk) == stk

\* NextIteration leaving the loop after the first failed candidate
NextIterationLeaves(stk) ==
    [stk EXCEPT ![Len(stk)].i = Len(stk[Len(stk)].possibleNums) + 1]

\* line 216: the stack with its top frame's loop moved on to the next candidate
NextIteration(stk) == [stk EXCEPT ![Len(stk)].i = @ + 1]

\* Lines 203-214: an invocation starts. It records a snapshot when a trace sink
\* was supplied, looks for the first empty cell, returns true when there is none,
\* and otherwise fixes the candidate order and reaches the loop.
Enter ==
    /\ ctl = "call"
    /\ steps' = Recorded(steps, sudoku, hasSteps)
    /\ invocations' = invocations + 1
    /\ LET emptyCell == findNextEmptyCell(sudoku)
       IN  IF emptyCell = Null
           THEN /\ ctl' = "ret_true"
                /\ lastReturn' = [call |-> invocations + 1, entry |-> sudoku]
                /\ UNCHANGED <<stack, rng>>
           ELSE /\ stack' = Append(stack,
                        [row          |-> emptyCell[1],
                         col          |-> emptyCell[2],
                         possibleNums |-> Candidates(fillCellsSequentially, rng),
                         i            |-> 1,
                         call         |-> invocations + 1,
                         entry        |-> sudoku])
                /\ rng' = IF fillCellsSequentially THEN rng ELSE rng + 1
                /\ ctl' = "loop"
                /\ UNCHANGED lastReturn
    /\ UNCHANGED <<sudoku, placements>>
    /\ UNCHANGED callerVars
    /\ UNCHANGED <<componentVars, callVars>>

\* the position, from the loop's current one on, of the first candidate that
\* isValidValue accepts for the frame's cell; 0 when there is none
NextAccepted(frame, board) ==
    LET accepted == {k \in frame.i .. Len(frame.possibleNums) :
                        isValidValue(frame.possibleNums[k], frame.row, frame.col, board)}
    IN  IF accepted = {} THEN 0
        ELSE CHOOSE k \in accepted : \A m \in accepted : k <= m

\* Lines 216-220: the loop passes over the candidates isValidValue rejects, which
\* changes nothing but its position, writes the first one accepted to the cell and
\* makes the recursive call.
Iterate ==
    /\ ctl = "loop"
    /\ NextAccepted(Top, sudoku) # 0
    /\ LET k == NextAccepted(Top, sudoku)
       IN  /\ sudoku' = Placed(sudoku, Top.row, Top.col, Top.possibleNums[k])
           /\ stack' = [stack EXCEPT ![Len(stack)].i = k]
    /\ placements' = placements + 1
    /\ ctl' = "call"
    /\ UNCHANGED <<steps, rng, lastReturn, invocations>>
    /\ UNCHANGED callerVars
    /\ UNCHANGED <<componentVars, callVars>>

\* Lines 216-228: no candidate is left that isValidValue accepts; the loop ends
\* and the invocation returns false.
ReturnFalse ==
    /\ ctl = "loop"
    /\ NextAccepted(Top, sudoku) = 0
    /\ lastReturn' = [call |-> Top.call, entry |-> Top.entry]
    /\ stack' = SubSeq(stack, 1, Len(stack) - 1)
    /\ ctl' = "ret_false"
    /\ UNCHANGED <<sudoku, steps, rng, invocations, placements>>
    /\ UNCHANGED callerVars
    /\ UNCHANGED <<componentVars, callVars>>

\* Lines 220-222: the recursive call returned true and the caller returns true.
PropagateTrue ==
    /\ ctl = "ret_true"
    /\ stack # <<>>
    /\ lastReturn' = [call |-> Top.call, entry |-> Top.entry]
    /\ stack' = SubSeq(stack, 1, Len(stack) - 1)
    /\ UNCHANGED <<sudoku, steps, ctl, rng, invocations, placements>>
    /\ UNCHANGED callerVars
    /\ UNCHANGED <<componentVars, callVars>>

\* Line 224: the recursive call returned false; the caller empties the cell again
\* and goes on with the next candidate.
Revert ==
    /\ ctl = "ret_false"
    /\ stack # <<>>
    /\ sudoku' = Reverted(sudoku, Top.row, Top.col)
    /\ stack' = NextIteration(stack)
    /\ ctl' = "loop"
    /\ UNCHANGED <<steps, rng, lastReturn, invocations, placements>>
    /\ UNCHANGED callerVars
    /\ UNCHANGED <<componentVars, callVars>>

\* the top-level invocation has returned
Returned == stack = <<>> /\ ctl \in {"ret_true", "ret_false"}

-----------------------------------------------------------------------------
(* The starting boards of a solver run *)

\* a solved grid: row r is 1 .. 9 rotated by 3 * (r mod 3) + r div 3
BaseBoard ==
    [r \in Rows |-> [c \in Cols |->
        [value   |-> ((BoxSize * (r % BoxSize) + (r \div BoxSize) + c) % Size) + 1,
         isGiven |-> TRUE]]]

\* the cells a starting board differs from BaseBoard in: rows 0 .. 2 of the columns
\* 0, 3 and 6, where BaseBoard holds 1, 4 and 7 only
Window ==
    << <<0, 0>>, <<0, 3>>, <<0, 6>>, <<1, 0>>, <<1, 3>>, <<1, 6>>, <<2, 0>> >>

WindowCells == {Window[k] : k \in 1 .. Len(Window)}

EditValues == {BaseBoard[p[1]][p[2]].value : p \in WindowCells}

\* the cell setSudokuCell of the solver component writes: the value, and
\* isGiven = !!value
EditedCell(value) == [value |-> value, isGiven |-> value # 0]

\* BaseBoard with the window cells set as edit says
WithWindow(edit) ==
    [r \in Rows |-> [c \in Cols |->
        IF <<r, c>> \in WindowCells THEN EditedCell(edit[<<r, c>>]) ELSE BaseBoard[r][c]]]

\* BaseBoard itself, and BaseBoard with the window emptied but for at most MaxEdits
\* of its cells, which hold any of the values, legal there or not
StartBoards ==
    {BaseBoard} \cup
    {WithWindow(edit) : edit \in
        {e \in [WindowCells -> EditValues \cup {0}] :
            Cardinality({p \in WindowCells : e[p] # 0}) <= MaxEdits}}

Seeds == 0 .. (MaxSeed - 1)

NoResult == [solved |-> FALSE, isNull |-> TRUE, trace |-> <<>>]

NoPrev == [solved |-> FALSE, isNull |-> TRUE, trace |-> <<>>, sudoku |-> generateEmptySudokuBoard]

\* lines 71-76 of the SudokuSolver component: its state when it is mounted, but
\* for the board; the text of the speed input is the sequence of its digits
NoPlayback ==
    /\ solvingSteps = <<>>
    /\ isUnsolvable = FALSE
    /\ solvingSpeed = <<1>>
    /\ isSolvingSudoku = FALSE
    /\ currentStepIdx = 0
    /\ effects = <<>>
    /\ effectPending = FALSE
    /\ sameObject = FALSE
    /\ event = "mount"

Mounted ==
    /\ sudokuBoard = generateEmptySudokuBoard
    /\ NoPlayback

\* no call of a helper is under examination
NoCall == args = <<>> /\ ret = <<>>

-----------------------------------------------------------------------------
(* The callers of solveSudoku *)

\* the state in which solveSudoku(board, sequential, steps?) is called
StartSolve(board, sequential, sink, seed) ==
    /\ sudoku = board
    /\ board0 = board
    /\ lastReturn = [call |-> 0, entry |-> board]
    /\ steps = <<>>
    /\ hasSteps = sink
    /\ fillCellsSequentially = sequential
    /\ stack = <<>>
    /\ ctl = "call"
    /\ rng = seed
    /\ invocations = 0
    /\ placements = 0

\* solveSudokuSteps(board), solveSudoku(board) or solveSudoku(board, false) is called
\* on a starting board
Init ==
    /\ \E board \in StartBoards :
         \/ /\ caller = "solveSudokuSteps"
            /\ StartSolve(board, TRUE, TRUE, 0)
         \/ /\ caller = "solveSudoku"
            /\ \/ StartSolve(board, TRUE, FALSE, 0)
               \/ \E seed \in Seeds : StartSolve(board, FALSE, FALSE, seed)
    /\ phase = "solving"
    /\ result = NoResult
    /\ prev = NoPrev
    /\ run = 1
    /\ Mounted
    /\ NoCall

\* StepsResult returning the trace whatever solveSudoku returned
StepsResultAlways(solved, trace) ==
    [solved |-> solved, isNull |-> FALSE, trace |-> trace]

\* lines 236-237: the trace when solved, null otherwise
StepsResult(solved, trace) ==
    IF solved
    THEN [solved |-> TRUE, isNull |-> FALSE, trace |-> trace]
    ELSE [solved |-> FALSE, isNull |-> TRUE, trace |-> <<>>]

\* solveSudokuSteps returns, once its call of solveSudoku has
StepsReturn ==
    /\ phase = "solving"
    /\ caller = "solveSudokuSteps"
    /\ Returned
    /\ result' = StepsResult(ctl = "ret_true", steps)
    /\ phase' = "done"
    /\ UNCHANGED <<solverVars, hasSteps, fillCellsSequentially, caller, board0, prev, run>>
    /\ UNCHANGED <<componentVars, callVars>>

\* a direct call of solveSudoku returns its boolean
SolveReturn ==
    /\ phase = "solving"
    /\ caller = "solveSudoku"
    /\ Returned
    /\ result' = [solved |-> (ctl = "ret_true"), isNull |-> TRUE, trace |-> <<>>]
    /\ phase' = "done"
    /\ UNCHANGED <<solverVars, hasSteps, fillCellsSequentially, caller, board0, prev, run>>
    /\ UNCHANGED <<componentVars, callVars>>

\* solveSudokuSteps is called a second time on a board equal to the first run's
\* starting board, with the random source in any state
RunAgain ==
    /\ phase = "done"
    /\ caller = "solveSudokuSteps"
    /\ run = 1
    /\ prev' = [solved |-> result.solved, isNull |-> result.isNull,
                trace |-> result.trace, sudoku |-> sudoku]
    /\ run' = 2
    /\ sudoku' = deepCopy(board0)
    /\ lastReturn' = [call |-> 0, entry |-> board0]
    /\ steps' = <<>>
    /\ stack' = <<>>
    /\ ctl' = "call"
    /\ \E seed \in Seeds : rng' = seed
    /\ invocations' = 0
    /\ placements' = 0
    /\ phase' = "solving"
    /\ result' = NoResult
    /\ UNCHANGED <<hasSteps, fillCellsSequentially, caller, board0>>
    /\ UNCHANGED <<componentVars, callVars>>

Next ==
    \/ Enter
    \/ Iterate
    \/ ReturnFalse
    \/ PropagateTrue
    \/ Revert
    \/ StepsReturn
    \/ SolveReturn
    \/ RunAgain

Spec == Init /\ [][Next]_vars

\* one step of a synchronous call: of the solver, or the return to its caller
Run ==
    \/ Enter
    \/ Iterate
    \/ ReturnFalse
    \/ PropagateTrue
    \/ Revert
    \/ StepsReturn
    \/ SolveReturn

\* One call on a starting board. A call is synchronous and nothing else runs on
\* the thread, so the call that has a step to take takes it.
SpecLive == Init /\ [][Run]_vars /\ WF_vars(Run)

-----------------------------------------------------------------------------
(* generateSolvableSudokuBoard, and a solve of a copy of the board it returns *)

\* lines 23-27: the 81 positions in row-major order
cellPositions ==
    [k \in 1 .. (Size * Size) |-> <<(k - 1) \div Size, (k - 1) % Size>>]

\* lines 18-21: the empty board is created and solveSudoku(initialSudoku, false) called
InitGen ==
    /\ caller = "generateSolvableSudokuBoard"
    /\ \E seed \in Seeds : StartSolve(generateEmptySudokuBoard, FALSE, FALSE, seed)
    /\ phase = "generating"
    /\ result = NoResult
    /\ prev = NoPrev
    /\ run = 1
    /\ Mounted
    /\ NoCall

\* Prefix as .slice(1, emptyCells)
PrefixFromOne(positions, emptyCells) == SubSeq(positions, 2, emptyCells)

\* line 31: .slice(0, emptyCells)
Prefix(positions, emptyCells) == SubSeq(positions, 1, emptyCells)

\* lines 23-44, after solveSudoku has returned (its result is not looked at):
\* random(48, 62) cells, a prefix of the shuffled positions, are emptied, and
\* every cell's isGiven is set to value > 0
Remove ==
    /\ phase = "generating"
    /\ Returned
    /\ \E emptyCells \in random(MinRemoved, MaxRemoved) :
         LET shuffledCellPositions == Prefix(shuffle(cellPositions, rng), emptyCells)
             removed == {shuffledCellPositions[k] : k \in 1 .. Len(shuffledCellPositions)}
             emptied == [r \in Rows |-> [c \in Cols |->
                            IF <<r, c>> \in removed
                            THEN [sudoku[r][c] EXCEPT !.value = 0]
                            ELSE sudoku[r][c]]]
         IN  sudoku' = [r \in Rows |-> [c \in Cols |->
                            [emptied[r][c] EXCEPT !.isGiven = (emptied[r][c].value > 0)]]]
    /\ rng' = rng + 1
    /\ prev' = [solved |-> ctl = "ret_true", isNull |-> TRUE, trace |-> <<>>,
                sudoku |-> sudoku]
    /\ phase' = "generated"
    /\ UNCHANGED <<steps, stack, ctl, lastReturn, invocations, placements>>
    /\ UNCHANGED <<hasSteps, fillCellsSequentially, caller, result, board0, run>>
    /\ UNCHANGED <<componentVars, callVars>>

\* solveSudoku is called on a deep copy of the generated board
SolveCopy ==
    /\ phase = "generated"
    /\ sudoku' = deepCopy(sudoku)
    /\ board0' = sudoku
    /\ lastReturn' = [call |-> 0, entry |-> sudoku]
    /\ fillCellsSequentially' = TRUE
    /\ caller' = "solveSudoku"
    /\ ctl' = "call"
    /\ invocations' = 0
    /\ placements' = 0
    /\ run' = 2
    /\ phase' = "solving"
    /\ UNCHANGED <<steps, hasSteps, stack, rng, result, prev>>
    /\ UNCHANGED <<componentVars, callVars>>

NextGen ==
    \/ Enter
    \/ Iterate
    \/ ReturnFalse
    \/ PropagateTrue
    \/ Revert
    \/ Remove
    \/ SolveCopy
    \/ SolveReturn

SpecGen == InitGen /\ [][NextGen]_vars

-----------------------------------------------------------------------------
(* The sequential solve of the empty board *)

\* solveSudoku(generateEmptySudokuBoard(), true) or
\* solveSudokuSteps(generateEmptySudokuBoard()) is called
InitEmpty ==
    /\ \/ /\ caller = "solveSudoku"
          /\ StartSolve(generateEmptySudokuBoard, TRUE, FALSE, 0)
       \/ /\ caller = "solveSudokuSteps"
          /\ StartSolve(generateEmptySudokuBoard, TRUE, TRUE, 0)
    /\ phase = "solving"
    /\ result = NoResult
    /\ prev = NoPrev
    /\ run = 1
    /\ Mounted
    /\ NoCall

NextEmpty ==
    \/ Enter
    \/ Iterate
    \/ ReturnFalse
    \/ PropagateTrue
    \/ Revert
    \/ StepsReturn
    \/ SolveReturn

SpecEmpty == InitEmpty /\ [][NextEmpty]_vars

-----------------------------------------------------------------------------
(* The constraint checker on its own: a value is checked, written and checked again *)

\* no solver run is in progress; board is the board at hand
NoSolve(board) ==
    /\ sudoku = board
    /\ board0 = board
    /\ lastReturn = [call |-> 0, entry |-> board]
    /\ steps = <<>>
    /\ hasSteps = FALSE
    /\ fillCellsSequentially = TRUE
    /\ stack = <<>>
    /\ ctl = "idle"
    /\ rng = 0
    /\ invocations = 0
    /\ placements = 0
    /\ result = NoResult
    /\ prev = NoPrev
    /\ run = 0

\* the boards the checker is examined on: the empty board, a solved one, and the
\* solved one with the window emptied but for at most one cell
CheckBoards ==
    {generateEmptySudokuBoard, BaseBoard} \cup
    {WithWindow(edit) : edit \in
        {e \in [WindowCells -> EditValues \cup {0}] :
            Cardinality({p \in WindowCells : e[p] # 0}) <= 1}}

\* any value of 1 .. 9 and any cell of any of the boards
InitPlace ==
    /\ \E board \in CheckBoards : NoSolve(board)
    /\ args \in [testValue : Values, row : Rows, col : Cols]
    /\ ret = <<>>
    /\ phase = "checking"
    /\ caller = "isValidValue"
    /\ Mounted

\* line 217: isValidValue(testValue, row, col, sudoku) is called
CallIsValidValue ==
    /\ phase = "checking"
    /\ ret' = [isValidValue |-> isValidValue(args.testValue, args.row, args.col, sudoku)]
    /\ phase' = "checked"
    /\ UNCHANGED <<solverVars, hasSteps, fillCellsSequentially, caller, result, board0,
                   prev, run, componentVars, args>>

\* line 218 and the three checks asked again: the accepted value is written to
\* the cell, and isValidRowValue, isValidColValue and isValidBoxValue are called
\* for the same value and cell on the board as written
PlaceAndAskAgain ==
    /\ phase = "checked"
    /\ ret.isValidValue
    /\ sudoku' = Placed(sudoku, args.row, args.col, args.testValue)
    /\ ret' = [isValidRowValue |-> isValidRowValue(args.testValue, args.row, sudoku'),
               isValidColValue |-> isValidColValue(args.testValue, args.col, sudoku'),
               isValidBoxValue |->
                   isValidBoxValue(args.testValue, args.row, args.col, sudoku')]
    /\ phase' = "placed"
    /\ UNCHANGED <<steps, stack, ctl, rng, lastReturn, invocations, placements>>
    /\ UNCHANGED <<hasSteps, fillCellsSequentially, caller, result, board0, prev, run,
                   componentVars, args>>

NextPlace ==
    \/ CallIsValidValue
    \/ PlaceAndAskAgain

SpecPlace == InitPlace /\ [][NextPlace]_vars

-----------------------------------------------------------------------------
(* The geometry helper isCellInBox *)

\* isCellInBox with the end of the box included in the scan
isCellInBoxClosed(referenceRow, referenceCol, testRow, testCol) ==
    IF referenceRow < 0 \/ referenceCol < 0 THEN FALSE
    ELSE LET rowStart == referenceRow - (referenceRow % BoxSize)
             rowEnd   == rowStart + BoxSize
             colStart == referenceCol - (referenceCol % BoxSize)
             colEnd   == colStart + BoxSize
         IN  \E y \in rowStart .. rowEnd : \E x \in colStart .. colEnd :
                 y = testRow /\ x = testCol

\* isCellInBox: false for a negative reference coordinate; otherwise whether the
\* scan of the reference cell's box, rows rowStart .. rowEnd-1 and columns
\* colStart .. colEnd-1, meets the test cell
isCellInBox(referenceRow, referenceCol, testRow, testCol) ==
    IF referenceRow < 0 \/ referenceCol < 0 THEN FALSE
    ELSE LET rowStart == referenceRow - (referenceRow % BoxSize)
             rowEnd   == rowStart + BoxSize
             colStart == referenceCol - (referenceCol % BoxSize)
             colEnd   == colStart + BoxSize
         IN  \E y \in rowStart .. (rowEnd - 1) : \E x \in colStart .. (colEnd - 1) :
                 y = testRow /\ x = testCol

\* a reference coordinate: a row or column of the grid, or the -1 of "no cell"
ReferenceCoords == (-1) .. (Size - 1)

\* any reference cell and any test cell
InitBox ==
    /\ NoSolve(generateEmptySudokuBoard)
    /\ args \in [referenceRow : ReferenceCoords, referenceCol : ReferenceCoords,
                  testRow : Rows, testCol : Cols]
    /\ ret = <<>>
    /\ phase = "calling"
    /\ caller = "isCellInBox"
    /\ Mounted

\* isCellInBox(referenceRow, referenceCol, testRow, testCol) is called
CallIsCellInBox ==
    /\ phase = "calling"
    /\ ret' = [isCellInBox |->
                 isCellInBox(args.referenceRow, args.referenceCol, args.testRow, args.testCol)]
    /\ phase' = "called"
    /\ UNCHANGED <<solverVars, hasSteps, fillCellsSequentially, caller, result, board0,
                   prev, run, componentVars, args>>

NextBox == CallIsCellInBox

SpecBox == InitBox /\ [][NextBox]_vars

-----------------------------------------------------------------------------
(* The older SudokuBoard component, whose board is a grid of numbers and whose *)
(* handleChange validates an edit with the isValidValue of that version        *)

\* parseInt of a text of decimal digits, given as their sequence: NaN for the
\* empty text, the number the digits spell otherwise
RECURSIVE parseInt(_)
parseInt(text) ==
    IF text = <<>> THEN [isNaN |-> TRUE, value |-> 0]
    ELSE [isNaN |-> FALSE,
          value |-> IF Len(text) = 1 THEN text[1]
                    ELSE 10 * parseInt(SubSeq(text, 1, Len(text) - 1)).value
                         + text[Len(text)]]

\* isValidRowValue of the older version: no entry of the row is testValue
isValidRowValueOfGrid(testValue, row, grid) ==
    \A x \in Cols : testValue # grid[row][x]

\* isValidColValue of the older version
isValidColValueOfGrid(testValue, col, grid) ==
    \A y \in Rows : testValue # grid[y][col]

\* isValidBoxValue of the older version
isValidBoxValueOfGrid(testValue, row, col, grid) ==
    LET rowStart == row - (row % BoxSize)
        rowEnd   == rowStart + BoxSize
        colStart == col - (col % BoxSize)
        colEnd   == colStart + BoxSize
    IN  \A y \in rowStart .. (rowEnd - 1) : \A x \in colStart .. (colEnd - 1) :
            testValue # grid[y][x]

\* isValidValue of the older version
isValidValueOfGrid(testValue, row, col, grid) ==
    /\ isValidRowValueOfGrid(testValue, row, grid)
    /\ isValidColValueOfGrid(testValue, col, grid)
    /\ isValidBoxValueOfGrid(testValue, row, col, grid)

\* generateEmptySudokuBoard of the older version: 9 rows of 9 zeros
EmptyGrid == [r \in Rows |-> [c \in Cols |-> 0]]

\* the cells edited: two of a row, two of a column, two that share only a box,
\* and one that shares a row with one and a column with another
GridCells == {<<0, 0>>, <<0, 4>>, <<4, 0>>, <<1, 1>>, <<4, 4>>}

\* the board the component starts with: the empty grid, or a solved grid with the
\* edited cells emptied
StartGrids ==
    {EmptyGrid,
     [r \in Rows |-> [c \in Cols |->
         IF <<r, c>> \in GridCells THEN 0 ELSE BaseBoard[r][c].value]]}

\* the texts typed into a cell: one digit of 1 .. MaxInput
InputTexts == {<<v>> : v \in 1 .. MaxInput}

InitBoard ==
    /\ NoSolve(generateEmptySudokuBoard)
    /\ sudokuBoard \in StartGrids
    /\ NoPlayback
    /\ args = <<>>
    /\ ret = <<>>
    /\ phase = "editing"
    /\ caller = "SudokuBoard"

\* handleChange writing the value whatever isValidValue says
handleChangeUnchecked(text, row, col) ==
    LET inputVal == parseInt(text).value
    IN  /\ phase = "editing"
        /\ args' = [inputVal |-> inputVal, row |-> row, col |-> col]
        /\ ret' = [accepted |-> isValidValueOfGrid(inputVal, row, col, sudokuBoard),
                   before |-> sudokuBoard]
        /\ sudokuBoard' = [sudokuBoard EXCEPT ![row][col] = inputVal]
        /\ event' = "handleChange"
        /\ UNCHANGED <<solverVars, callerVars, solvingSteps, isUnsolvable, solvingSpeed,
                       isSolvingSudoku, currentStepIdx, effects, effectPending, sameObject>>

\* handleChange(e, row, col) with e.target.value = text: the parsed value is
\* written to a copy of the board, which becomes the state, when isValidValue
\* accepts it at that cell of the current board; nothing happens otherwise
handleChange(text, row, col) ==
    LET inputVal == parseInt(text).value
    IN  /\ phase = "editing"
        /\ args' = [inputVal |-> inputVal, row |-> row, col |-> col]
        /\ ret' = [accepted |-> isValidValueOfGrid(inputVal, row, col, sudokuBoard),
                   before |-> sudokuBoard]
        /\ IF isValidValueOfGrid(inputVal, row, col, sudokuBoard)
           THEN sudokuBoard' = [sudokuBoard EXCEPT ![row][col] = inputVal]
           ELSE UNCHANGED sudokuBoard
        /\ event' = "handleChange"
        /\ UNCHANGED <<solverVars, callerVars, solvingSteps, isUnsolvable, solvingSpeed,
                       isSolvingSudoku, currentStepIdx, effects, effectPending, sameObject>>

\* the user types into a cell
Edit == \E text \in InputTexts : \E p \in GridCells : handleChange(text, p[1], p[2])

NextBoard == Edit

SpecBoard == InitBoard /\ [][NextBoard]_vars

-----------------------------------------------------------------------------
(* The SudokuSolver component: its handlers, the effect that plays a trace back *)
(* and the showSteps calls it starts                                            *)

\* what solvingSteps[solvingSteps.length - 1] is when the array is empty
Undefined == <<>>

\* the cells emptied in the board on display at the start
UIWindow == {<<0, 0>>, <<0, 3>>, <<1, 0>>, <<1, 3>>}

\* the cell the user edits, and the values typed into it
UICells == {<<0, 3>>}

UIValues == {0, 1, 4}

\* the boards on display at the start: the solved board with the cells of
\* UIWindow emptied, after the user has typed a value into the edited cell or not
UIBoards ==
    {[r \in Rows |-> [c \in Cols |->
        IF <<r, c>> \in UICells THEN EditedCell(value)
        ELSE IF <<r, c>> \in UIWindow THEN EditedCell(0)
        ELSE BaseBoard[r][c]]] : value \in UIValues}

\* the texts of the speed input: "0", "1" and the empty text
SpeedTexts == {<<0>>, <<1>>, <<>>}

\* a board generateSolvableSudokuBoard can return: a solved board with 48 cells
\* emptied, isGiven set where a value is left
GeneratedBoards ==
    {[r \in Rows |-> [c \in Cols |->
        IF Size * r + c < MinRemoved
        THEN [value |-> 0, isGiven |-> FALSE]
        ELSE [value |-> BaseBoard[r][c].value, isGiven |-> TRUE]]]}

InitUI ==
    /\ NoSolve(generateEmptySudokuBoard)
    /\ sudokuBoard \in UIBoards
    /\ NoPlayback
    /\ NoCall
    /\ phase = "idle"
    /\ caller = "SudokuSolver"

\* the browser is between tasks and React has no effect left to run: a user
\* event can be handled
Interactive == phase = "idle" /\ ~effectPending

\* lines 114-121: setSudokuCell(value, row, col); the cells take no input while
\* isSolvingSudoku
setSudokuCell(value, row, col) ==
    /\ Interactive
    /\ ~isSolvingSudoku
    /\ sudokuBoard' = [deepCopy(sudokuBoard) EXCEPT ![row][col] = EditedCell(value)]
    /\ event' = "setSudokuCell"
    /\ UNCHANGED <<solverVars, callerVars, callVars, solvingSteps, isUnsolvable,
                   solvingSpeed, isSolvingSudoku, currentStepIdx, effects, effectPending,
                   sameObject>>

EditCell ==
    \E p \in UICells : \E value \in UIValues : setSudokuCell(value, p[1], p[2])

\* lines 123-125: handleSolvingSpeedChange with e.target.value = text, another
\* text than the input holds
handleSolvingSpeedChange(text) ==
    /\ Interactive
    /\ text # solvingSpeed
    /\ Len(effects) < MaxSleeping
    /\ solvingSpeed' = text
    /\ effectPending' = TRUE
    /\ event' = "handleSolvingSpeedChange"
    /\ UNCHANGED <<solverVars, callerVars, callVars, sudokuBoard, solvingSteps,
                   isUnsolvable, isSolvingSudoku, currentStepIdx, effects, sameObject>>

ChangeSpeed == \E text \in SpeedTexts : handleSolvingSpeedChange(text)

\* lines 107-112 and 127-130: handleClearClick: resetState(), then the empty board
handleClearClick ==
    /\ Interactive
    /\ isSolvingSudoku' = FALSE
    /\ solvingSteps' = <<>>
    /\ isUnsolvable' = FALSE
    /\ currentStepIdx' = 0
    /\ sudokuBoard' = generateEmptySudokuBoard
    /\ effectPending' = TRUE
    /\ event' = "handleClearClick"
    /\ UNCHANGED <<solverVars, callerVars, callVars, solvingSpeed, effects, sameObject>>

\* lines 107-112 and 143-146: handleGenerateClick: resetState(), then a generated
\* board
handleGenerateClick ==
    /\ Interactive
    /\ isSolvingSudoku' = FALSE
    /\ solvingSteps' = <<>>
    /\ isUnsolvable' = FALSE
    /\ currentStepIdx' = 0
    /\ sudokuBoard' \in GeneratedBoards
    /\ effectPending' = TRUE
    /\ event' = "handleGenerateClick"
    /\ UNCHANGED <<solverVars, callerVars, callVars, solvingSpeed, effects, sameObject>>

\* SolveArgument handing the solver the state's own board
SolveArgumentUncopied(board) == [board |-> board, sameObject |-> TRUE]

\* line 134: the solver is handed deepCopy(sudokuBoard), another object
SolveArgument(board) == [board |-> deepCopy(board), sameObject |-> FALSE]

\* lines 132-134: handleSolveClick, up to the call of solveSudokuSteps; the
\* button is disabled while isSolvingSudoku
handleSolveClick ==
    /\ Interactive
    /\ ~isSolvingSudoku
    /\ Cardinality({p \in Positions : sudokuBoard[p[1]][p[2]].value = 0}) <= MaxSolveEmpty
    /\ Len(effects) < MaxSleeping
    /\ isSolvingSudoku' = TRUE
    /\ sudoku' = SolveArgument(sudokuBoard).board
    /\ sameObject' = SolveArgument(sudokuBoard).sameObject
    /\ board0' = sudokuBoard
    /\ lastReturn' = [call |-> 0, entry |-> sudokuBoard]
    /\ steps' = <<>>
    /\ hasSteps' = TRUE
    /\ fillCellsSequentially' = TRUE
    /\ stack' = <<>>
    /\ ctl' = "call"
    /\ invocations' = 0
    /\ placements' = 0
    /\ result' = NoResult
    /\ phase' = "solving"
    /\ caller' = "handleSolveClick"
    /\ event' = "handleSolveClick"
    /\ UNCHANGED <<rng, prev, run, callVars, sudokuBoard, solvingSteps, isUnsolvable,
                   solvingSpeed, currentStepIdx, effects, effectPending>>

\* lines 134-140: solveSudokuSteps has returned: the trace becomes solvingSteps,
\* or null raises the unsolvable notice; currentStepIdx.current = 0
SolveClickReturn ==
    /\ phase = "solving"
    /\ caller = "handleSolveClick"
    /\ Returned
    /\ LET stepsResult == StepsResult(ctl = "ret_true", steps)
       IN  /\ result' = stepsResult
           /\ IF ~stepsResult.isNull
              THEN solvingSteps' = stepsResult.trace /\ UNCHANGED isUnsolvable
              ELSE isUnsolvable' = TRUE /\ UNCHANGED solvingSteps
    /\ currentStepIdx' = 0
    /\ effectPending' = TRUE
    /\ phase' = "idle"
    /\ UNCHANGED <<solverVars, hasSteps, fillCellsSequentially, caller, board0, prev, run,
                   callVars, sudokuBoard, solvingSpeed, isSolvingSudoku, effects,
                   sameObject, event>>

\* solvingSteps[solvingSteps.length - 1]
LastStep(trace) == IF trace = <<>> THEN Undefined ELSE trace[Len(trace)]

\* the sequence without its k-th entry
Without(seq, k) == SubSeq(seq, 1, k - 1) \o SubSeq(seq, k + 1, Len(seq))

\* the cleanup of lines 102-104 has run for every showSteps call still asleep
CleanedUp(sleeping) ==
    [k \in 1 .. Len(sleeping) |-> [sleeping[k] EXCEPT !.skipPreviousEffect = TRUE]]

\* Lines 78-105: React runs the effect after a render that changed solvingSpeed,
\* solvingSteps or isSolvingSudoku: the cleanup of the previous effect sets its
\* skipPreviousEffect, and the new effect, when isSolvingSudoku, calls showSteps,
\* which runs up to its first sleep: at speed 0 it displays the last step;
\* otherwise it starts its loop at currentStepIdx.current and, when a step is
\* left, records the index, displays the step and sleeps.
RunEffect ==
    /\ phase = "idle"
    /\ effectPending
    /\ effectPending' = FALSE
    /\ event' = "useEffect"
    /\ LET numericSolvingSpeed == parseInt(solvingSpeed)
           i == currentStepIdx
       IN  IF ~isSolvingSudoku
           THEN /\ effects' = CleanedUp(effects)
                /\ UNCHANGED <<sudokuBoard, currentStepIdx>>
           ELSE IF ~numericSolvingSpeed.isNaN /\ numericSolvingSpeed.value = 0
           THEN /\ sudokuBoard' = LastStep(solvingSteps)
                /\ effects' = CleanedUp(effects)
                /\ UNCHANGED currentStepIdx
           ELSE IF i < Len(solvingSteps)
           THEN /\ currentStepIdx' = i
                /\ sudokuBoard' = solvingSteps[i + 1]
                /\ effects' = Append(CleanedUp(effects),
                        [skipPreviousEffect  |-> FALSE,
                         numericSolvingSpeed |-> numericSolvingSpeed,
                         solvingSteps        |-> solvingSteps,
                         i                   |-> i])
           ELSE /\ effects' = CleanedUp(effects)
                /\ UNCHANGED <<sudokuBoard, currentStepIdx>>
    /\ UNCHANGED <<solverVars, callerVars, callVars, solvingSteps, isUnsolvable,
                   solvingSpeed, isSolvingSudoku, sameObject>>

\* Lines 86-94: the sleep of the k-th waiting showSteps call resolves and its loop
\* goes on with i + 1. A call whose skipPreviousEffect is set runs its loop to
\* the end without writing; otherwise, when a step is left, it records the index,
\* displays the step and sleeps again.
showSteps(k) ==
    /\ phase = "idle"
    /\ k \in 1 .. Len(effects)
    /\ event' = "showSteps"
    /\ LET effect == effects[k]
           i == effect.i + 1
       IN  IF ~effect.skipPreviousEffect /\ i < Len(effect.solvingSteps)
           THEN /\ currentStepIdx' = i
                /\ sudokuBoard' = effect.solvingSteps[i + 1]
                /\ effects' = [effects EXCEPT ![k].i = i]
           ELSE /\ effects' = Without(effects, k)
                /\ UNCHANGED <<sudokuBoard, currentStepIdx>>
    /\ UNCHANGED <<solverVars, callerVars, callVars, solvingSteps, isUnsolvable,
                   solvingSpeed, isSolvingSudoku, effectPending, sameObject>>

Wake == \E k \in 1 .. MaxSleeping : showSteps(k)

NextUI ==
    \/ Enter
    \/ Iterate
    \/ ReturnFalse
    \/ PropagateTrue
    \/ Revert
    \/ EditCell
    \/ ChangeSpeed
    \/ handleClearClick
    \/ handleGenerateClick
    \/ handleSolveClick
    \/ SolveClickReturn
    \/ RunEffect
    \/ Wake

SpecUI == InitUI /\ [][NextUI]_vars

-----------------------------------------------------------------------------
(* What the claims speak of, stated without the code's own checks *)

\* the 27 units of the grid: 9 rows, 9 columns, 9 boxes
Units ==
    {{p \in Positions : p[1] = r} : r \in Rows}
    \cup {{p \in Positions : p[2] = c} : c \in Cols}
    \cup {{p \in Positions : p[1] \div 3 = a /\ p[2] \div 3 = b} : a, b \in 0 .. 2}

ValueAt(board, p) == board[p[1]][p[2]].value

EmptyCells(board) == {p \in Positions : ValueAt(board, p) = 0}

\* no non-zero value occurs twice in a row, a column or a box
Legal(board) ==
    \A u \in Units :
        Cardinality({ValueAt(board, p) : p \in u} \ {0})
            = Cardinality({p \in u : ValueAt(board, p) # 0})

\* every row, column and box holds each of 1 .. 9 exactly once
Solved(board) ==
    \A u \in Units : {ValueAt(board, p) : p \in u} = 1 .. 9

\* the boards that fill every empty cell of board with a value its row lacks
RECURSIVE RowFills(_)
RowFills(board) ==
    IF EmptyCells(board) = {} THEN {board}
    ELSE LET p == CHOOSE q \in EmptyCells(board) : TRUE
             missing == {v \in 1 .. 9 : \A c \in Cols : board[p[1]][c].value # v}
         IN  UNION {RowFills([board EXCEPT ![p[1]][p[2]].value = v]) : v \in missing}

\* some assignment of the empty cells makes the board a solved one
CompletionExists(board) == \E full \in RowFills(board) : Solved(full)

\* some empty cell admits no value
DeadCell(board) ==
    \E p \in EmptyCells(board) :
        \A v \in 1 .. 9 : ~isValidValue(v, p[1], p[2], board)

\* the top-level invocation of solveSudoku has returned true / false
ReturnedTrue == stack = <<>> /\ ctl = "ret_true"
ReturnedFalse == stack = <<>> /\ ctl = "ret_false"

-----------------------------------------------------------------------------
(* C1 *)

\* C1: on a starting board without duplicates, when solveSudoku has returned true
\* the board has no empty cell and every row, column and box holds each of
\* 1 .. 9 exactly once
C1_SolvedWhenTrue ==
    (ReturnedTrue /\ Legal(board0)) =>
        (EmptyCells(sudoku) = {} /\ Solved(sudoku))

\* solveSudoku returned true on a legal board after filling at least three cells,
\* one of them more than once
C1_Witness ==
    /\ ReturnedTrue
    /\ Legal(board0)
    /\ Cardinality(EmptyCells(board0)) >= 3
    /\ placements > Cardinality(EmptyCells(board0))

(* C2 *)

\* C2: on a legal starting board, in either candidate order, solveSudoku returns
\* true exactly when the empty cells have a legal completion; a board with an
\* empty cell that admits no value makes it return false
C2_Exhaustive ==
    (Returned /\ Legal(board0)) =>
        /\ ReturnedTrue <=> CompletionExists(board0)
        /\ DeadCell(board0) => ReturnedFalse

\* solveSudoku, with shuffled candidates, returned false on a legal board that has
\* empty cells, each of which admits some value
C2_Witness ==
    /\ ReturnedFalse
    /\ Legal(board0)
    /\ ~fillCellsSequentially
    /\ ~DeadCell(board0)
    /\ placements >= 2

(* C3 *)

\* C3: when an invocation of solveSudoku, top-level or recursive, has returned
\* false, the board equals the board that invocation was entered with
C3_RestoredOnFalse ==
    ctl = "ret_false" => sudoku = lastReturn.entry

\* a recursive invocation that itself placed values has returned false
C3_Witness ==
    /\ ctl = "ret_false"
    /\ stack # <<>>
    /\ invocations > lastReturn.call

(* C4 *)

\* C4: solveSudokuSteps returns null exactly when its sequential solveSudoku
\* returned false; otherwise a non-empty trace whose first snapshot is the board
\* as passed in and whose last is the board left in place, which has no empty cell
C4_StepsOutcome ==
    (phase = "done" /\ caller = "solveSudokuSteps") =>
        /\ result.isNull <=> ctl = "ret_false"
        /\ ~result.isNull =>
              /\ Len(result.trace) >= 1
              /\ result.trace[1] = board0
              /\ result.trace[Len(result.trace)] = sudoku
              /\ EmptyCells(sudoku) = {}

\* solveSudokuSteps returned a trace with more snapshots than a search that never
\* backtracks records
C4_Witness ==
    /\ phase = "done"
    /\ caller = "solveSudokuSteps"
    /\ ~result.isNull
    /\ Len(result.trace) > Cardinality(EmptyCells(board0)) + 1

(* C5 *)

\* C5: from a starting board without duplicates, the board after every placement
\* and every revert, and every snapshot of the trace, is without duplicates
C5_LegalThroughout ==
    Legal(board0) =>
        /\ Legal(sudoku)
        /\ \A k \in 1 .. Len(steps) : Legal(steps[k])

\* a legal run has just reverted a cell, with snapshots recorded
C5_Witness ==
    /\ ctl = "loop"
    /\ placements > Len(stack)
    /\ Len(steps) >= 3
    /\ Legal(board0)

(* C6 *)

\* the cells that were filled in board0 hold the same value in board, and every
\* cell's isGiven is as in board0
KeepsGivens(board) ==
    \A p \in Positions :
        /\ ValueAt(board0, p) # 0 => ValueAt(board, p) = ValueAt(board0, p)
        /\ board[p[1]][p[2]].isGiven = board0[p[1]][p[2]].isGiven

\* C6: throughout a solve and after it, in the board and in every snapshot, every
\* cell filled at the start keeps its value and no isGiven flag changes
C6_GivensFixed ==
    /\ KeepsGivens(sudoku)
    /\ \A k \in 1 .. Len(steps) : KeepsGivens(steps[k])

\* a solve of a board with an edited window cell has returned true with at least
\* five snapshots
C6_Witness ==
    /\ ReturnedTrue
    /\ Len(steps) >= 5
    /\ \E p \in WindowCells : ValueAt(board0, p) # 0

(* C7 *)

\* C7: with a trace sink, every invocation appends exactly one snapshot, on entry:
\* the trace is as long as the number of invocations, which is one more than the
\* number of placements once the invocation a placement calls has been entered;
\* the snapshot at an invocation's ordinal is the board it was entered with
C7_OneSnapshotPerInvocation ==
    hasSteps =>
        /\ Len(steps) = invocations
        /\ ctl # "call" => Len(steps) = 1 + placements
        /\ ctl = "call" => Len(steps) = placements
        /\ \A k \in 1 .. Len(stack) :
              /\ stack[k].call \in 1 .. Len(steps)
              /\ steps[stack[k].call] = stack[k].entry

\* a traced solve is back in a loop after a revert, three invocations deep
C7_Witness ==
    /\ hasSteps
    /\ ctl = "loop"
    /\ Len(stack) >= 3
    /\ placements > Len(stack)

(* C8 *)

\* C8: a second run of solveSudokuSteps on an equal starting board, whatever the
\* state of the random source, ends with the same outcome, the same trace and the
\* same final board as the first
C8_Deterministic ==
    (run = 2 /\ phase = "done" /\ caller = "solveSudokuSteps") =>
        /\ result.isNull = prev.isNull
        /\ result.trace = prev.trace
        /\ sudoku = prev.sudoku

\* the second run started with the random source in another state than the first
\* and returned a trace of a search that backtracked
C8_Witness ==
    /\ run = 2
    /\ phase = "done"
    /\ caller = "solveSudokuSteps"
    /\ rng # 0
    /\ ~result.isNull
    /\ Len(result.trace) > Cardinality(EmptyCells(board0)) + 1

(* C9 *)

NonZero(board) == Cardinality({p \in Positions : ValueAt(board, p) # 0})

\* C9: the board generateSolvableSudokuBoard returns has between 19 and 33
\* non-zero cells
C9_GivenCount ==
    phase = "generated" => NonZero(sudoku) \in 19 .. 33

\* a generated board with exactly 19 non-zero cells
C9_Witness ==
    /\ phase = "generated"
    /\ NonZero(sudoku) = 19

(* C10 *)

\* C10: the shuffled fill of the empty board returns true and leaves a solved
\* board; the generated board keeps some of its values and empties the rest, has
\* no duplicates, and solveSudoku on a copy of it returns true
C10_GeneratedSolvable ==
    /\ phase = "generated" =>
          /\ prev.solved
          /\ Solved(prev.sudoku)
          /\ \A p \in Positions : ValueAt(sudoku, p) \in {0, ValueAt(prev.sudoku, p)}
          /\ Legal(sudoku)
    /\ (phase = "done" /\ run = 2) =>
          /\ Legal(board0)
          /\ result.solved

\* solveSudoku returned true on the copy of a generated board with 62 empty cells,
\* after backtracking
C10_Witness ==
    /\ phase = "done"
    /\ run = 2
    /\ result.solved
    /\ Cardinality(EmptyCells(board0)) = 62
    /\ placements > 62

(* C11 *)

\* C11: when the sequential solve of the empty board has returned, it has returned
\* true and the first row of the board reads 1, 2, 3, 4, 5, 6, 7, 8, 9
C11_EmptyBoardFirstRow ==
    Returned =>
        /\ ctl = "ret_true"
        /\ \A c \in Cols : sudoku[0][c].value = c + 1

\* the solve of the empty board has returned after a search that backtracked
C11_Witness ==
    /\ Returned
    /\ board0 = generateEmptySudokuBoard
    /\ fillCellsSequentially
    /\ placements > Size * Size

(* C12 *)

\* C12: on every starting board, contradictory ones included, and in both
\* candidate orders, every call of solveSudoku eventually returns; the stack is
\* never deeper than the number of cells empty at the start, a loop is never past
\* its ninth candidate when it places one, and after a failed recursive call the
\* loop moves on to a later candidate
C12_Terminates ==
    /\ [](Len(stack) <= Cardinality(EmptyCells(board0)))
    /\ [](ctl = "call" /\ stack # <<>> => Top.i \in 1 .. Size)
    /\ [][(ctl = "ret_false" /\ stack # <<>>) => stack'[Len(stack)].i > Top.i]_vars
    /\ (phase = "solving") ~> Returned

\* solveSudoku has returned false on a board with a duplicate, with shuffled
\* candidates, after a search that backtracked
C12_Witness ==
    /\ ReturnedFalse
    /\ ~fillCellsSequentially
    /\ ~Legal(board0)
    /\ placements >= 2

(* C13 *)

\* C13: once a value that isValidValue accepted has been written to the cell,
\* isValidRowValue, isValidColValue and isValidBoxValue each return false for
\* that value at that cell
C13_PlacementBlocks ==
    phase = "placed" =>
        /\ ~ret.isValidRowValue
        /\ ~ret.isValidColValue
        /\ ~ret.isValidBoxValue

\* an accepted value was written outside the top-left box of a board that holds
\* other values
C13_Witness ==
    /\ phase = "placed"
    /\ args.row >= BoxSize
    /\ args.col >= BoxSize
    /\ ValueAt(sudoku, <<args.row, args.col>>) = args.testValue
    /\ ValueAt(board0, <<args.row, args.col>>) = 0

(* C14 *)

\* the call under examination was isCellInBox(a, b, c, d)
CalledWith(a, b, c, d) ==
    /\ args.referenceRow = a
    /\ args.referenceCol = b
    /\ args.testRow = c
    /\ args.testCol = d

\* C14: for reference coordinates of -1 .. 8 and test coordinates of 0 .. 8,
\* isCellInBox returns true exactly when both reference coordinates are
\* non-negative and the test cell's row and column, divided by 3 and rounded
\* down, equal the reference cell's; it is true of (4,4,3,3) and false of
\* (0,0,3,0) and of (-1,4,0,0)
C14_IsCellInBox ==
    phase = "called" =>
        /\ ret.isCellInBox <=>
              /\ args.referenceRow >= 0
              /\ args.referenceCol >= 0
              /\ args.testRow \div 3 = args.referenceRow \div 3
              /\ args.testCol \div 3 = args.referenceCol \div 3
        /\ CalledWith(4, 4, 3, 3) => ret.isCellInBox
        /\ CalledWith(0, 0, 3, 0) => ~ret.isCellInBox
        /\ CalledWith(-1, 4, 0, 0) => ~ret.isCellInBox

\* isCellInBox(0, 0, 3, 0) has returned false: the test cell is in the row right
\* after the reference cell's box
C14_Witness ==
    /\ phase = "called"
    /\ CalledWith(0, 0, 3, 0)
    /\ ~ret.isCellInBox

(* C15 *)

\* no non-zero number occurs twice in a row, a column or a box of the grid
LegalGrid(grid) ==
    \A u \in Units :
        Cardinality({grid[p[1]][p[2]] : p \in u} \ {0})
            = Cardinality({p \in u : grid[p[1]][p[2]] # 0})

\* C15: in the older board component, starting from a grid without duplicates,
\* after any sequence of edits the grid has no duplicate; an edit changed the
\* grid only if isValidValue accepted it, it then changed that one cell to the
\* value typed, and a rejected edit left the grid as it was
C15_ValidatedEdits ==
    /\ LegalGrid(sudokuBoard)
    /\ event = "handleChange" =>
          /\ (sudokuBoard # ret.before) => isValidValue(args.inputVal, args.row, args.col,
                  [r \in Rows |-> [c \in Cols |->
                      [value |-> ret.before[r][c], isGiven |-> FALSE]]])
          /\ ret.accepted => sudokuBoard = [ret.before EXCEPT ![args.row][args.col] = args.inputVal]
          /\ ~ret.accepted => sudokuBoard = ret.before

\* an edit was rejected on a grid that already holds three accepted values, for
\* a value that only the cell's box holds
C15_Witness ==
    /\ event = "handleChange"
    /\ ~ret.accepted
    /\ sudokuBoard = ret.before
    /\ Cardinality({p \in Positions : sudokuBoard[p[1]][p[2]] # 0}) = 3
    /\ \A x \in Cols : sudokuBoard[args.row][x] # args.inputVal
    /\ \A y \in Rows : sudokuBoard[y][args.col] # args.inputVal

(* C18 *)

\* the snapshots of the trace are pairwise different boards
Distinct(trace) ==
    Cardinality({trace[k] : k \in 1 .. Len(trace)}) = Len(trace)

\* C18: the snapshots recorded so far, and those of a trace solveSudokuSteps
\* returned, are pairwise different; consecutive ones differ in some cell
C18_SnapshotsDistinct ==
    /\ Distinct(steps)
    /\ Distinct(result.trace)
    /\ \A k \in 1 .. (Len(steps) - 1) :
          \E p \in Positions : ValueAt(steps[k], p) # ValueAt(steps[k + 1], p)

\* solveSudokuSteps returned a trace in which some snapshot, reached after a
\* backtrack, has no more cells filled than the one before it
C18_Witness ==
    /\ phase = "done"
    /\ caller = "solveSudokuSteps"
    /\ ~result.isNull
    /\ \E k \in 1 .. (Len(result.trace) - 1) :
          NonZero(result.trace[k + 1]) <= NonZero(result.trace[k])

(* C19 *)

\* the solved boards that fill the empty cells of board
Completions(board) == {full \in RowFills(board) : Solved(full)}

\* a is before b, or equal to it, when the values are read in row-major order
LexLeq(a, b) ==
    LET differing == {p \in Positions : ValueAt(a, p) # ValueAt(b, p)}
    IN  \/ differing = {}
        \/ LET first == CHOOSE p \in differing :
                            \A q \in differing : Size * p[1] + p[2] <= Size * q[1] + q[2]
           IN  ValueAt(a, first) < ValueAt(b, first)

\* C19: when the sequential solveSudoku has returned true on a starting board
\* without duplicates, the board is a completion of the starting board and no
\* completion is before it in row-major order
C19_LeastSolution ==
    (ReturnedTrue /\ fillCellsSequentially /\ Legal(board0)) =>
        /\ sudoku \in Completions(board0)
        /\ \A full \in Completions(board0) : LexLeq(sudoku, full)

\* the sequential solve returned true on a board with several completions
C19_Witness ==
    /\ ReturnedTrue
    /\ fillCellsSequentially
    /\ Legal(board0)
    /\ Cardinality(Completions(board0)) >= 2

(* C16 *)

\* the board in the sudokuBoard state, as a reader of that object finds it
DisplayedBoard == IF sameObject THEN sudoku ELSE sudokuBoard

\* C16: from the click on Solve, through the whole solve and up to the next
\* effect or callback, the board in the sudokuBoard state is the board it was at
\* the click; and whenever that board changes, it is playback, a cell edit, Clear
\* or Generate that changed it
C16_SolveOnCopy ==
    /\ [](event = "handleSolveClick" => DisplayedBoard = board0)
    /\ [][DisplayedBoard' # DisplayedBoard =>
             event' \in {"useEffect", "showSteps", "setSudokuCell",
                         "handleClearClick", "handleGenerateClick"}]_vars

\* solveSudokuSteps has returned to handleSolveClick with its copy solved, the
\* board on display still holding empty cells
C16_Witness ==
    /\ event = "handleSolveClick"
    /\ phase = "solving"
    /\ ReturnedTrue
    /\ placements >= 2
    /\ EmptyCells(sudoku) = {}
    /\ EmptyCells(sudokuBoard) # {}

(* C17 *)

\* a solve session is open whose solve found the board unsolvable
UnsolvableSession == phase = "idle" /\ isSolvingSudoku /\ result.isNull

\* C17: from the return of a Solve click on an unsolvable board until Clear or
\* Generate, at every speed setting, the unsolvable notice is up and the board on
\* display is the board shown before the click; Clear and Generate take the
\* notice down
C17_UnsolvableNotice ==
    /\ UnsolvableSession => (isUnsolvable /\ sudokuBoard = board0)
    /\ event \in {"handleClearClick", "handleGenerateClick"} => ~isUnsolvable

(* C20 *)

\* a solve session is open and has a trace to play back
PlaybackSession == phase = "idle" /\ isSolvingSudoku /\ solvingSteps # <<>>

\* the index, from 0, of the board on display in the trace of the session
DisplayedIdx ==
    IF \E k \in 1 .. Len(solvingSteps) : solvingSteps[k] = sudokuBoard
    THEN (CHOOSE k \in 1 .. Len(solvingSteps) : solvingSteps[k] = sudokuBoard) - 1
    ELSE 0

\* C20: within a solve session, whatever the speed changes, no step displays a
\* snapshot of a smaller index than the one on display
C20_PlaybackForward ==
    [][(PlaybackSession /\ PlaybackSession') => DisplayedIdx' >= DisplayedIdx]_vars

(* C21 *)

\* the step is the loop of the k-th waiting showSteps call going on after its
\* sleep, the cleanup of its effect having run
CancelledWake(k) == showSteps(k) /\ effects[k].skipPreviousEffect

\* no solve session is open: Clear or Generate has closed the last one, or none
\* was opened
NoSession == ~isSolvingSudoku

\* a step in which a cleaned-up loop wakes leaves the board on display and
\* currentStepIdx alone
CleanedUpLoopSilent ==
    \A k \in 1 .. Len(effects) :
        CancelledWake(k) => UNCHANGED <<sudokuBoard, currentStepIdx>>

\* a step of an effect or of a resolved sleep taken while no session is open
\* leaves the board on display alone, and currentStepIdx at 0
ResetStays ==
    (NoSession /\ event' \in {"useEffect", "showSteps"}) =>
        (sudokuBoard' = sudokuBoard /\ currentStepIdx' = 0)

\* C21: a playback loop whose effect was cleaned up writes neither the board on
\* display nor currentStepIdx when its sleep resolves; and after Clear or
\* Generate, while no Solve click has opened a session, no effect and no
\* resolved sleep changes the board on display, and currentStepIdx stays 0
C21_CancelledWritesNothing ==
    /\ [][CleanedUpLoopSilent]_vars
    /\ [][ResetStays]_vars

=============================================================================
